---------------------------- MODULE Spec2Model ----------------------------
(***************************************************************************)
(* A model of companies_job_links_find.py: CareerPageFinder's resolver     *)
(* (search_company_website), discovery engine (find_career_page) and batch *)
(* orchestrator (process_companies_from_file, save_results,                *)
(* generate_summary_report).                                               *)
(*                                                                         *)
(* Python strings that the code inspects (URLs, hrefs, anchor texts,       *)
(* company names, file lines) are sequences of one-character strings, so   *)
(* that lower(), strip(), rstrip('/'), substring tests and urljoin are     *)
(* computed rather than assumed.  Python's None is the one-element tuple   *)
(* None, which is no character sequence.                                   *)
(*                                                                         *)
(* find_career_page is cut at its network requests: one step per           *)
(* session.get / session.head, each step running the code up to the next   *)
(* request or to the return.  The network is the environment: the outcome  *)
(* of each request is drawn from the set the variable world allows.        *)
(***************************************************************************)
EXTENDS Integers, Sequences, FiniteSets, TLC

\* ---------------------------------------------------------------- bounds

\* Longest homepage (number of anchors with an href) the free world serves.
MaxAnchors == 4

\* Most result anchors on a search page of the free world.
MaxResults == 2

\* Longest input file (in company lines) of a batch.
MaxCompanies == 100

\* ------------------------------------------------------ program constants

\* career_links[:3]
MaxCareerUrls == 3

\* if i % 50 == 0
CheckpointEvery == 50

None == <<"None">>

NotFound == <<"N", "o", "t", " ", "f", "o", "u", "n", "d">>

Error == <<"E", "r", "r", "o", "r">>

career_patterns ==
    << <<"/", "c", "a", "r", "e", "e", "r", "s">>,
       <<"/", "c", "a", "r", "e", "e", "r">>,
       <<"/", "j", "o", "b", "s">>,
       <<"/", "j", "o", "b", "-", "o", "p", "p", "o", "r", "t", "u", "n", "i", "t", "i", "e", "s">>,
       <<"/", "w", "o", "r", "k", "-", "w", "i", "t", "h", "-", "u", "s">>,
       <<"/", "j", "o", "i", "n", "-", "u", "s">>,
       <<"/", "e", "m", "p", "l", "o", "y", "m", "e", "n", "t">>,
       <<"/", "o", "p", "p", "o", "r", "t", "u", "n", "i", "t", "i", "e", "s">>,
       <<"/", "h", "i", "r", "i", "n", "g">>,
       <<"/", "o", "p", "e", "n", "i", "n", "g", "s">> >>

career_keywords ==
    << <<"c", "a", "r", "e", "e", "r">>,
       <<"j", "o", "b">>,
       <<"w", "o", "r", "k", " ", "w", "i", "t", "h", " ", "u", "s">>,
       <<"j", "o", "i", "n", " ", "u", "s">>,
       <<"e", "m", "p", "l", "o", "y", "m", "e", "n", "t">>,
       <<"h", "i", "r", "i", "n", "g">>,
       <<"o", "p", "p", "o", "r", "t", "u", "n", "i", "t", "i", "e", "s">>,
       <<"o", "p", "e", "n", "i", "n", "g", "s">> >>

\* ------------------------------------------------------- string functions

UpperToLower ==
    ("A" :> "a") @@ ("B" :> "b") @@ ("C" :> "c") @@ ("D" :> "d") @@
    ("E" :> "e") @@ ("F" :> "f") @@ ("G" :> "g") @@ ("H" :> "h") @@
    ("I" :> "i") @@ ("J" :> "j") @@ ("K" :> "k") @@ ("L" :> "l") @@
    ("M" :> "m") @@ ("N" :> "n") @@ ("O" :> "o") @@ ("P" :> "p") @@
    ("Q" :> "q") @@ ("R" :> "r") @@ ("S" :> "s") @@ ("T" :> "t") @@
    ("U" :> "u") @@ ("V" :> "v") @@ ("W" :> "w") @@ ("X" :> "x") @@
    ("Y" :> "y") @@ ("Z" :> "z")

\* str.lower()
Lower(s) ==
    [p \in 1..Len(s) |->
        IF s[p] \in DOMAIN UpperToLower THEN UpperToLower[s[p]] ELSE s[p]]

\* keyword in s
Contains(s, keyword) ==
    \E p \in 1..(Len(s) - Len(keyword) + 1) :
        SubSeq(s, p, p + Len(keyword) - 1) = keyword

StartsWith(s, prefix) ==
    /\ Len(s) >= Len(prefix)
    /\ SubSeq(s, 1, Len(prefix)) = prefix

Whitespace == {" ", "\n", "\t"}

\* str.strip()
Strip(s) ==
    LET keep == {p \in 1..Len(s) : s[p] \notin Whitespace}
    IN  IF keep = {} THEN <<>>
        ELSE SubSeq(s, CHOOSE p \in keep : \A q \in keep : p <= q,
                       CHOOSE p \in keep : \A q \in keep : q <= p)

\* str.rstrip('/')
RStripSlash(s) ==
    LET keep == {p \in 1..Len(s) : s[p] # "/"}
    IN  IF keep = {} THEN <<>>
        ELSE SubSeq(s, 1, CHOOSE p \in keep : \A q \in keep : q <= p)

\* Python truthiness of a str-or-None value: None and '' are false.
Falsy(x) == x = None \/ x = <<>>

\* l[:n]
Take(l, n) == SubSeq(l, 1, IF Len(l) < n THEN Len(l) ELSE n)

Letters ==
    {"a", "b", "c", "d", "e", "f", "g", "h", "i", "j", "k", "l", "m",
     "n", "o", "p", "q", "r", "s", "t", "u", "v", "w", "x", "y", "z"}

\* The length of url's scheme, colon included, or 0 when it has none: the
\* characters before the first ':' are all letters and there is at least one.
SchemeLen(url) ==
    LET colons == {p \in 1..Len(url) : url[p] = ":"}
    IN  IF colons = {} THEN 0
        ELSE LET c == CHOOSE p \in colons : \A q \in colons : p <= q
             IN  IF c > 1 /\ \A q \in 1..(c - 1) : Lower(url)[q] \in Letters
                 THEN c ELSE 0

\* scheme://netloc of an absolute URL: up to the first '/' after "://".
Origin(url) ==
    LET from == SchemeLen(url) + 3
        slashes == {p \in from..Len(url) : url[p] = "/"}
    IN  IF slashes = {} THEN url
        ELSE SubSeq(url, 1, (CHOOSE p \in slashes : \A q \in slashes : p <= q) - 1)

\* The directory of an absolute URL's path, with its trailing '/'.
PathDir(url) ==
    LET from == SchemeLen(url) + 3
        slashes == {p \in from..Len(url) : url[p] = "/"}
    IN  IF slashes = {} THEN url \o <<"/">>
        ELSE SubSeq(url, 1, CHOOSE p \in slashes : \A q \in slashes : q <= p)

\* The exception urljoin raises.
ValueError == <<"ValueError">>

\* The netloc of a url: what follows "//" (after the scheme, if any) up to the
\* next '/'; empty when the url has no "//" there.
Netloc(url) ==
    LET rest == SubSeq(url, SchemeLen(url) + 1, Len(url))
        body == SubSeq(rest, 3, Len(rest))
        slashes == {p \in 1..Len(body) : body[p] = "/"}
    IN  IF ~StartsWith(rest, <<"/", "/">>) THEN <<>>
        ELSE IF slashes = {} THEN body
        ELSE SubSeq(body, 1, (CHOOSE p \in slashes : \A q \in slashes : p <= q) - 1)

\* urlsplit's "Invalid IPv6 URL": one square bracket in the netloc without
\* the other.
InvalidNetloc(url) ==
    LET n == Netloc(url)
        has(c) == \E p \in 1..Len(n) : n[p] = c
    IN  has("[") # has("]")

\* urllib.parse.urljoin(base, url) for an absolute http(s) base without query
\* or fragment, and a url without dot segments: an empty url gives the base,
\* a url with a scheme stands as it is, "//host/.." takes the base's scheme,
\* "/path" the base's origin, "#frag" the base itself, and a relative path
\* the directory of the base's path.  A url with an invalid netloc raises.
urljoin(base, url) ==
    IF url = <<>> THEN base
    ELSE IF InvalidNetloc(url) THEN ValueError
    ELSE IF SchemeLen(url) > 0 THEN url
    ELSE IF StartsWith(url, <<"/", "/">>) THEN SubSeq(base, 1, SchemeLen(base)) \o url
    ELSE IF url[1] = "/" THEN Origin(base) \o url
    ELSE IF url[1] = "#" THEN base \o url
    ELSE PathDir(base) \o url

\* ------------------------------------------------------- the environment

H1 == <<"h", "t", "t", "p", "s", ":", "/", "/", "a", ".", "c", "o">>

H2 == <<"h", "t", "t", "p", "s", ":", "/", "/", "a", ".", "c", "o", "/">>

\* A search result's href as the search page gives it: protocol-relative.
HRedirect == <<"/", "/", "d", ".", "c", "o", "/", "l">>

\* The anchors (href, visible text as in the markup) homepages are built of.
AnchorPool ==
    { [href |-> <<"/", "a", "b", "o", "u", "t">>,
       text |-> <<"A", "b", "o", "u", "t">>],
      [href |-> <<"/", "C", "a", "r", "e", "e", "r", "s", "-", "I", "n", "f", "o">>,
       text |-> <<"M", "o", "r", "e">>],
      [href |-> <<"/", "t", "e", "a", "m">>,
       text |-> <<" ", "J", "o", "i", "n", " ", "U", "s", " ", "T", "o", "d", "a", "y", " ">>],
      [href |-> <<"h", "t", "t", "p", "s", ":", "/", "/", "a", ".", "c", "o", "/", "j", "o", "b", "s">>,
       text |-> <<>>],
      [href |-> <<"j", "o", "b", "s">>,
       text |-> <<"J", "o", "b", "s">>],
      [href |-> <<"/", "/", "b", ".", "c", "o", "/", "h", "i", "r", "i", "n", "g">>,
       text |-> <<"W", "o", "r", "k">>],
      [href |-> <<"/", "/", "[">>,
       text |-> <<"J", "o", "b", "s">>] }

\* Sequences over S of length at most n.
SeqUpTo(S, n) == UNION {[1..m -> S] : m \in 0..n}

\* Company names (free text); the first carries no meaning of its own.
CompanyPool ==
    << <<"I", "B", "M">>, <<"T", "C", "S">>, <<"S", "A", "P">>,
       <<"H", "P">>, <<"G", "E">> >>

\* The hrefs a search result anchor may carry; None is an anchor without href.
ResultHrefs == {None, <<>>, H1, H2, HRedirect, Error}

\* The main_website arguments a direct caller passes.
HomepageArgs == {None, <<>>, H1, H2, NotFound, Error}

VARIABLES
    world,          \* "free": any outcome of a request; "fixed": one per company
    input_file,     \* the input file: whether it exists, and its lines
    companies,      \* process_companies_from_file: companies
    i,              \* process_companies_from_file: i
    results,        \* process_companies_from_file: results
    saved,          \* the files save_results has written, oldest first
    summary,        \* the numbers generate_summary_report has printed, in order
    returned,       \* process_companies_from_file's return: "results" or "None"
    bpc,            \* process_companies_from_file's position
    company,        \* find_career_page: company_name
    arg,            \* find_career_page: main_website as the caller passed it
    main_website,   \* find_career_page: main_website
    all_links,      \* find_career_page: all_links
    career_links,   \* find_career_page: career_links
    k,              \* find_career_page: index of the next career_patterns entry
    result,         \* find_career_page's return value
    cpc,            \* find_career_page's position
    calls,          \* number of find_career_page calls begun
    requests        \* every request issued through self.session, oldest first

vars ==
    << world, input_file, companies, i, results, saved, summary, returned, bpc,
       company, arg, main_website, all_links, career_links, k, result, cpc,
       calls, requests >>

batchVars == << input_file, companies, i, results, saved, summary, returned, bpc >>

\* A request as the session issued it: status is the response's status code,
\* or 0 when the request raised.
Request(kind, url, status) ==
    [kind |-> kind, url |-> url, status |-> status, call |-> calls]

\* search_url, up to URL quoting.
SearchUrl(company_name) ==
    <<"h", "t", "t", "p", "s", ":", "/", "/", "d", "d", "g", "?", "q", "=">>
        \o company_name \o <<" ", "o", "f", "f", "i", "c", "i", "a", "l">>

\* What the fixed world answers to the search for a company: the hrefs of the
\* result anchors, or a raised request.
FixedSearch(company_name) ==
    CASE company_name = CompanyPool[1] -> [raised |-> FALSE, links |-> <<H2, H1>>]
      [] company_name = CompanyPool[2] -> [raised |-> TRUE, links |-> <<>>]
      [] company_name = CompanyPool[3] -> [raised |-> FALSE, links |-> <<H1>>]
      [] company_name = CompanyPool[4] -> [raised |-> FALSE, links |-> <<HRedirect>>]
      [] OTHER -> [raised |-> FALSE, links |-> <<>>]

\* The outcomes of session.get(search_url): the request raises, or the page
\* parses into the result anchors whose hrefs are links.
SearchOutcomes(company_name) ==
    IF world = "fixed" THEN {FixedSearch(company_name)}
    ELSE {[raised |-> TRUE, links |-> <<>>]}
         \cup {[raised |-> FALSE, links |-> l] : l \in SeqUpTo(ResultHrefs, MaxResults)}

\* What the fixed world serves as a company's homepage.
FixedPage(company_name) ==
    CASE company_name = CompanyPool[1] ->
            [raised |-> FALSE,
             page |-> << [href |-> <<"j", "o", "b", "s">>, text |-> <<"J", "o", "b", "s">>],
                         [href |-> <<"/", "a", "b", "o", "u", "t">>, text |-> <<"A", "b", "o", "u", "t">>],
                         [href |-> <<"/", "j", "o", "b", "s">>, text |-> <<>>] >>]
      [] company_name = CompanyPool[3] ->
            [raised |-> FALSE,
             page |-> << [href |-> <<"/", "a", "b", "o", "u", "t">>, text |-> <<"A", "b", "o", "u", "t">>] >>]
      [] OTHER -> [raised |-> TRUE, page |-> <<>>]

\* The outcomes of session.get(main_website) and of parsing the response: it
\* raises (a timeout, a connection error; always for a URL without scheme,
\* requests' MissingSchema), or gives soup.find_all('a', href=True).
GetOutcomes(company_name, url) ==
    IF SchemeLen(url) = 0 THEN {[raised |-> TRUE, page |-> <<>>]}
    ELSE IF world = "fixed" THEN {FixedPage(company_name)}
    ELSE {[raised |-> TRUE, page |-> <<>>]}
         \cup {[raised |-> FALSE, page |-> p] : p \in SeqUpTo(AnchorPool, MaxAnchors)}

\* The probes that fail by raising (a timeout) rather than by a 404.
RaisingProbes == {2, 5, 10}

\* The outcomes of session.head(test_url) for the n-th pattern: a status code,
\* or 0 for a raised request.
HeadOutcomes(n) ==
    IF world = "fixed" THEN {IF n \in {1, 3, 8, 9} THEN 200 ELSE IF n \in RaisingProbes THEN 0 ELSE 404}
    ELSE {200, IF n \in RaisingProbes THEN 0 ELSE 404}

\* ------------------------------------------------------ find_career_page

\* search_company_website's return value for an outcome of its request.
SearchResult(o) ==
    IF o.raised THEN None
    ELSE IF o.links # <<>> /\ ~Falsy(o.links[1]) THEN o.links[1]
    ELSE None

\* any(keyword in href or keyword in text for keyword in career_keywords)
IsCareerLink(link) ==
    LET href == Lower(link.href)
        text == Lower(Strip(link.text))
    IN  \E j \in DOMAIN career_keywords :
            Contains(href, career_keywords[j]) \/ Contains(text, career_keywords[j])

Range(l) == {l[p] : p \in DOMAIN l}

\* A dedupe that looks at the last link found only.
AlreadyFoundLast(full_url, acc) == acc # <<>> /\ acc[Len(acc)] = full_url

\* full_url in career_links
AlreadyFound(full_url, acc) == full_url \in Range(acc)

\* One pass of "for link in all_links" from position p on, career_links so far
\* being acc: the links found, or the exception urljoin raised.
RECURSIVE ScanFrom(_, _, _, _)
ScanFrom(base, links, p, acc) ==
    IF p > Len(links) THEN [raised |-> FALSE, links |-> acc]
    ELSE IF ~IsCareerLink(links[p]) THEN ScanFrom(base, links, p + 1, acc)
    ELSE LET full_url == urljoin(base, links[p].href)
         IN  IF full_url = ValueError THEN [raised |-> TRUE, links |-> acc]
             ELSE IF ~AlreadyFound(full_url, acc)
                  THEN ScanFrom(base, links, p + 1, Append(acc, full_url))
                  ELSE ScanFrom(base, links, p + 1, acc)

ScanLinks(base, links) == ScanFrom(base, links, 1, <<>>)

\* A fallback that probes whenever the scan found fewer links than are kept.
NeedsFallbackBelowLimit(links) == Len(links) < MaxCareerUrls

\* if not career_links
NeedsFallback(links) == links = <<>>

\* A probe that counts every outcome but a 404 as found.
ProbeFoundUnless404(status) == status # 404

\* if test_response.status_code == 200 (a raised probe has no response)
ProbeFound(status) == status = 200

\* No result yet: find_career_page has not returned.
NoResult == [company |-> None, main_website |-> None, career_urls |-> <<>>]

\* A "Not found" result that guesses the first patterns as career URLs.
NotFoundResultGuessing(company_name) ==
    [company |-> company_name,
     main_website |-> NotFound,
     career_urls |-> Take(career_patterns, MaxCareerUrls)]

NotFoundResult(company_name) ==
    [company |-> company_name, main_website |-> NotFound, career_urls |-> <<>>]

\* The except branch's result: main_website or "Error".
FailureResult(company_name, website) ==
    [company |-> company_name,
     main_website |-> IF Falsy(website) THEN Error ELSE website,
     career_urls |-> <<>>]

\* A result that keeps every link found.
FoundResultUntruncated(company_name, website, links) ==
    [company |-> company_name, main_website |-> website, career_urls |-> links]

FoundResult(company_name, website, links) ==
    [company |-> company_name,
     main_website |-> website,
     career_urls |-> Take(links, MaxCareerUrls)]

\* An entry that searches although the caller supplied a homepage.
EnterAlwaysSearching(company_name, website) ==
    /\ company' = company_name
    /\ arg' = website
    /\ main_website' = website
    /\ all_links' = <<>>
    /\ career_links' = <<>>
    /\ k' = 1
    /\ result' = NoResult
    /\ calls' = calls + 1
    /\ cpc' = "search"

\* Entry of find_career_page(company_name, website).
Enter(company_name, website) ==
    /\ company' = company_name
    /\ arg' = website
    /\ main_website' = website
    /\ all_links' = <<>>
    /\ career_links' = <<>>
    /\ k' = 1
    /\ result' = NoResult
    /\ calls' = calls + 1
    /\ cpc' = IF Falsy(website) THEN "search" ELSE "fetch"

\* A caller other than the batch calls find_career_page.
Call ==
    /\ bpc = "idle"
    /\ cpc = "idle"
    /\ \E c \in {CompanyPool[1]}, w \in HomepageArgs : Enter(c, w)
    /\ UNCHANGED << world, batchVars, requests >>

\* A search step without the early return: a resolver that found nothing is
\* followed by the homepage request.
SearchWithoutReturn ==
    /\ cpc = "search"
    /\ \E o \in SearchOutcomes(company) :
        /\ requests' = Append(requests,
                Request("SEARCH", SearchUrl(company), IF o.raised THEN 0 ELSE 200))
        /\ main_website' = SearchResult(o)
        /\ result' = result
        /\ cpc' = "fetch"
    /\ UNCHANGED << world, batchVars, company, arg, all_links, career_links, k, calls >>

\* if not main_website: search_company_website, and the return of "Not found".
Search ==
    /\ cpc = "search"
    /\ \E o \in SearchOutcomes(company) :
        /\ requests' = Append(requests,
                Request("SEARCH", SearchUrl(company), IF o.raised THEN 0 ELSE 200))
        /\ main_website' = SearchResult(o)
        /\ IF Falsy(SearchResult(o))
           THEN /\ result' = NotFoundResult(company)
                /\ cpc' = "done"
           ELSE /\ result' = result
                /\ cpc' = "fetch"
    /\ UNCHANGED << world, batchVars, company, arg, all_links, career_links, k, calls >>

\* session.get(main_website), the parse and the scan of all_links, up to the
\* first probe, the return or the except branch.
Fetch ==
    /\ cpc = "fetch"
    /\ \E o \in GetOutcomes(company, main_website) :
        /\ requests' = Append(requests,
                Request("GET", main_website, IF o.raised THEN 0 ELSE 200))
        /\ IF o.raised
           THEN /\ result' = FailureResult(company, main_website)
                /\ cpc' = "done"
                /\ UNCHANGED << all_links, career_links >>
           ELSE LET scan == ScanLinks(main_website, o.page)
                IN  /\ all_links' = o.page
                    /\ career_links' = scan.links
                    /\ IF scan.raised
                       THEN /\ result' = FailureResult(company, main_website)
                            /\ cpc' = "done"
                       ELSE IF NeedsFallback(scan.links)
                       THEN /\ result' = result
                            /\ cpc' = "probe"
                       ELSE /\ result' = FoundResult(company, main_website, scan.links)
                            /\ cpc' = "done"
    /\ UNCHANGED << world, batchVars, company, arg, main_website, k, calls >>

\* One pass of "for pattern in career_patterns", and the return after the last.
Probe ==
    /\ cpc = "probe"
    /\ \E status \in HeadOutcomes(k) :
        LET test_url == RStripSlash(main_website) \o career_patterns[k]
            links == IF ProbeFound(status) THEN Append(career_links, test_url)
                     ELSE career_links
        IN  /\ requests' = Append(requests, Request("HEAD", test_url, status))
            /\ career_links' = links
            /\ k' = k + 1
            /\ IF k = Len(career_patterns)
               THEN /\ result' = FoundResult(company, main_website, links)
                    /\ cpc' = "done"
               ELSE /\ result' = result
                    /\ cpc' = "probe"
    /\ UNCHANGED << world, batchVars, company, arg, main_website, all_links, calls >>

\* ------------------------------------------- process_companies_from_file

callVars == << company, arg, main_website, all_links, career_links, k, result, cpc, calls, requests >>

\* main's output_file.
output_file == <<"o", "u", "t">>

Digits == <<"0", "1", "2", "3", "4", "5", "6", "7", "8", "9">>

\* str(n) for a natural number n.
RECURSIVE Str(_)
Str(n) ==
    IF n < 10 THEN <<Digits[n + 1]>>
    ELSE Str(n \div 10) \o <<Digits[(n % 10) + 1]>>

DotTxt == <<".", "t", "x", "t">>

\* s.replace('.txt', ext)
RECURSIVE ReplaceTxt(_, _)
ReplaceTxt(s, ext) ==
    IF s = <<>> THEN <<>>
    ELSE IF StartsWith(s, DotTxt)
         THEN ext \o ReplaceTxt(SubSeq(s, Len(DotTxt) + 1, Len(s)), ext)
         ELSE <<s[1]>> \o ReplaceTxt(Tail(s), ext)

\* filename.replace('.txt', ext) if '.txt' in filename else filename + ext
OutputName(filename, ext) ==
    IF Contains(filename, DotTxt) THEN ReplaceTxt(filename, ext)
    ELSE filename \o ext

\* f"progress_{i}_{output_file}"
ProgressName(n) ==
    <<"p", "r", "o", "g", "r", "e", "s", "s", "_">> \o Str(n) \o <<"_">> \o output_file

\* What save_results(rows, filename) writes: the CSV file and the JSON file,
\* both of rows (one CSV row and one JSON object per result, in order).
save_results(rows, filename) ==
    [csv |-> OutputName(filename, <<".", "c", "s", "v">>),
     json |-> OutputName(filename, <<".", "j", "s", "o", "n">>),
     results |-> rows]

\* [line.strip() for line in file if line.strip()]
ReadCompanies(lines) ==
    LET NonBlank(line) == Strip(line) # <<>>
        kept == SelectSeq(lines, NonBlank)
    IN  [p \in DOMAIN kept |-> Strip(kept[p])]

\* A checkpoint test that counts the companies from 0.
CheckpointDueFromZero(n) == (n - 1) % CheckpointEvery = 0

\* if i % 50 == 0
CheckpointDue(n) == n % CheckpointEvery = 0

HasCareerPages(r) == r.career_urls # <<>>

HasWebsite(r) == r.main_website \notin {NotFound, Error}

\* sum(1 for r in results if r['career_urls'])
CountCareerPages(rows) == Cardinality({j \in DOMAIN rows : HasCareerPages(rows[j])})

\* sum(1 for r in results if r['main_website'] not in ['Not found', 'Error'])
CountWebsites(rows) == Cardinality({j \in DOMAIN rows : HasWebsite(rows[j])})

\* The numbers generate_summary_report prints, in order: total_companies,
\* found_websites and its percentage, found_career_pages and its percentage
\* (in tenths of a percent), and the companies without a career page.  The
\* percentages divide by total_companies: on an empty rows the division
\* raises after the first number is printed.
generate_summary_report(rows) ==
    LET total_companies == Len(rows)
        found_career_pages == CountCareerPages(rows)
        found_websites == CountWebsites(rows)
    IN  IF total_companies = 0 THEN [raised |-> TRUE, printed |-> <<total_companies>>]
        ELSE [raised |-> FALSE,
              printed |-> << total_companies,
                             found_websites,
                             (found_websites * 1000) \div total_companies,
                             found_career_pages,
                             (found_career_pages * 1000) \div total_companies,
                             total_companies - found_career_pages >>]

\* open(input_file) and the read of its lines; a missing file is reported and
\* the function returns None.
Open ==
    /\ bpc = "idle"
    /\ cpc = "idle"
    /\ IF ~input_file.exists
       THEN /\ bpc' = "returned"
            /\ returned' = "None"
            /\ UNCHANGED << companies, i, results >>
       ELSE /\ companies' = ReadCompanies(input_file.lines)
            /\ i' = 0
            /\ results' = <<>>
            /\ bpc' = "loop"
            /\ returned' = returned
    /\ UNCHANGED << world, input_file, saved, summary, callVars >>

\* for i, company in enumerate(companies, 1): result = self.find_career_page(company)
NextCompany ==
    /\ bpc = "loop"
    /\ i < Len(companies)
    /\ i' = i + 1
    /\ Enter(companies[i + 1], None)
    /\ bpc' = "calling"
    /\ UNCHANGED << world, input_file, companies, results, saved, summary, returned, requests >>

\* results.append(result)
AppendResult ==
    /\ bpc = "calling"
    /\ cpc = "done"
    /\ results' = Append(results, result)
    /\ bpc' = "appended"
    /\ cpc' = "idle"
    /\ UNCHANGED << world, input_file, companies, i, saved, summary, returned,
                    company, arg, main_website, all_links, career_links, k, result,
                    calls, requests >>

\* The progress save every 50 companies, and the sleep that ends the pass.
Checkpoint ==
    /\ bpc = "appended"
    /\ saved' = IF CheckpointDue(i)
                THEN Append(saved, save_results(results, ProgressName(i)))
                ELSE saved
    /\ bpc' = "loop"
    /\ UNCHANGED << world, input_file, companies, i, results, summary, returned, callVars >>

\* After the loop: self.save_results(results, output_file).  A write that
\* fails (a full disk) is outside the model.
SaveFinal ==
    /\ bpc = "loop"
    /\ i = Len(companies)
    /\ saved' = Append(saved, save_results(results, output_file))
    /\ bpc' = "summary"
    /\ UNCHANGED << world, input_file, companies, i, results, summary, returned, callVars >>

\* self.generate_summary_report(results) and "return results"; the division
\* by total_companies raises on an empty results, which "except Exception"
\* catches: the function then returns None.
Summarize ==
    /\ bpc = "summary"
    /\ LET report == generate_summary_report(results)
       IN  /\ summary' = report.printed
           /\ returned' = IF report.raised THEN "None" ELSE "results"
    /\ bpc' = "returned"
    /\ UNCHANGED << world, input_file, companies, i, results, saved, callVars >>

\* ------------------------------------------------------- the specification

\* The input file of n company lines starting at the off-th pool name, with
\* blank lines around them when blanks.
FileOf(n, off, blanks) ==
    LET names == [j \in 1..n |->
                    CompanyPool[((j - 1 + off) % Len(CompanyPool)) + 1] \o <<"\n">>]
    IN  IF blanks THEN <<<<"\n">>>> \o names \o <<<<" ", " ", "\n">>>> ELSE names

Init ==
    /\ world \in {"free", "fixed"}
    /\ input_file \in
         IF world = "free" THEN {[exists |-> FALSE, lines |-> <<>>]}
         ELSE {[exists |-> FALSE, lines |-> <<>>]}
              \cup {[exists |-> TRUE, lines |-> FileOf(n, 0, b)] :
                        n \in 0..MaxCompanies, b \in BOOLEAN}
    /\ companies = <<>>
    /\ i = 0
    /\ results = <<>>
    /\ saved = <<>>
    /\ summary = <<>>
    /\ returned = "pending"
    /\ bpc = "idle"
    /\ company = None
    /\ arg = None
    /\ main_website = None
    /\ all_links = <<>>
    /\ career_links = <<>>
    /\ k = 1
    /\ result = NoResult
    /\ cpc = "idle"
    /\ calls = 0
    /\ requests = <<>>

Next ==
    \/ Call
    \/ Search
    \/ Fetch
    \/ Probe
    \/ Open
    \/ NextCompany
    \/ AppendResult
    \/ Checkpoint
    \/ SaveFinal
    \/ Summarize

Spec == Init /\ [][Next]_vars

\* -------------------------------------------------------------- properties

\* The requests of the find_career_page call in progress (or just returned).
CallRequests ==
    LET OfCall(r) == r.call = calls
    IN  SelectSeq(requests, OfCall)

OfKind(reqs, kind) ==
    LET IsKind(r) == r.kind = kind
    IN  SelectSeq(reqs, IsKind)

\* Every result find_career_page has returned: the one just returned and
\* those the batch has accumulated or saved.
Returned ==
    (IF cpc = "done" THEN {result} ELSE {})
        \cup Range(results)
        \cup UNION {Range(saved[p].results) : p \in DOMAIN saved}

\* A career-relevant anchor, as the vocabulary defines it: its lower-cased
\* href or its lower-cased text contains a keyword.
Relevant(a) ==
    \E kw \in Range(career_keywords) :
        Contains(Lower(a.href), kw) \/ Contains(Lower(a.text), kw)

\* C1: in every result find_career_page returns, a main_website that is one
\* of the sentinels "Not found" and "Error" comes with an empty career_urls.
C1_SentinelHasNoCareerUrls ==
    \A r \in Returned :
        r.main_website \in {NotFound, Error} => r.career_urls = <<>>

\* C1's case: the resolver returned the string "Error" as the homepage, its
\* GET raised, and the call returned the sentinel main_website "Error".
C1_Witness ==
    /\ cpc = "done"
    /\ result.main_website = Error
    /\ Len(CallRequests) = 2
    /\ CallRequests[2].kind = "GET"

\* C2: every result find_career_page returns, and every entry of a batch's
\* result sequence, has at most 3 career_urls.
C2_AtMostThreeCareerUrls ==
    \A r \in Returned : Len(r.career_urls) <= 3

\* C2's case: a call found more than 3 links and returned 3 of them.
C2_Witness ==
    /\ cpc = "done"
    /\ Len(career_links) > 3
    /\ Len(result.career_urls) = 3

\* C3: when no homepage is supplied, the resolver returns a URL and the GET
\* of that URL raises, the result has main_website = "Error" and no
\* career_urls.
C3_ResolvedFetchFailureIsError ==
    ( /\ cpc = "done"
      /\ arg = None
      /\ Len(CallRequests) = 2
      /\ CallRequests[1].kind = "SEARCH"
      /\ CallRequests[2].kind = "GET"
      /\ SchemeLen(CallRequests[2].url) > 0
      /\ CallRequests[2].status = 0 )
    => /\ result.main_website = Error
       /\ result.career_urls = <<>>

\* The homepage scan found at least one relevant anchor.
RelevantFound == \E p \in DOMAIN all_links : Relevant(all_links[p])

\* C4: fallback probing is triggered only when the link scan yields zero
\* relevant links: a call whose scan found a relevant link issues no HEAD
\* request and returns only URLs of relevant anchors of the page; a HEAD
\* request is issued only after a homepage GET that succeeded and a scan that
\* found none.
C4_FallbackOnlyAfterEmptyScan ==
    LET heads == OfKind(CallRequests, "HEAD")
        gets == OfKind(CallRequests, "GET")
    IN  /\ RelevantFound =>
            /\ heads = <<>>
            /\ cpc = "done" =>
                 \A u \in Range(result.career_urls) :
                    \E p \in DOMAIN all_links :
                        /\ Relevant(all_links[p])
                        /\ u = urljoin(main_website, all_links[p].href)
        /\ heads # <<>> =>
            /\ ~RelevantFound
            /\ Len(gets) = 1
            /\ gets[1].status = 200
            /\ CallRequests[Len(CallRequests) - Len(heads)] = gets[1]

\* C4's case: a page of several anchors, exactly one of them relevant, was
\* scanned and the call returned that one link without probing.
C4_Witness ==
    /\ cpc = "done"
    /\ Len(all_links) >= 2
    /\ Cardinality({p \in DOMAIN all_links : Relevant(all_links[p])}) = 1
    /\ Len(result.career_urls) = 1
    /\ OfKind(CallRequests, "HEAD") = <<>>

\* C5: when no homepage is supplied and the resolver returns None, the call
\* returns {main_website: "Not found", career_urls: []} at once: its only
\* request is the search, no homepage GET and no HEAD probe is issued.
C5_ResolverNoneIsTerminal ==
    (Falsy(arg) /\ cpc \notin {"idle", "search"} /\ main_website = None) =>
        /\ cpc = "done"
        /\ result = [company |-> company, main_website |-> NotFound, career_urls |-> <<>>]
        /\ Len(CallRequests) = 1
        /\ CallRequests[1].kind = "SEARCH"

\* C5's case: the search request raised and the call returned "Not found".
C5_Witness ==
    /\ cpc = "done"
    /\ Falsy(arg)
    /\ main_website = None
    /\ CallRequests # <<>>
    /\ CallRequests[1].status = 0
    /\ result.main_website = NotFound

\* The fallback path: the call in progress has issued a HEAD probe.
InFallback == OfKind(CallRequests, "HEAD") # <<>>

\* The n-th suffix URL: the homepage base + suffix.
SuffixUrl(n) == RStripSlash(main_website) \o career_patterns[n]

\* The URLs of the probes that returned HTTP 200, in probe order.
ProbesOk ==
    LET heads == OfKind(CallRequests, "HEAD")
        Ok(r) == r.status = 200
        ok == SelectSeq(heads, Ok)
    IN  [p \in DOMAIN ok |-> ok[p].url]

\* C6 as stated: in the fallback path a suffix URL is in the result if and
\* only if its HEAD check returned HTTP 200.
C6_IncludedIffProbeOk ==
    (cpc = "done" /\ InFallback) =>
        \A n \in DOMAIN career_patterns :
            SuffixUrl(n) \in Range(result.career_urls)
                <=> OfKind(CallRequests, "HEAD")[n].status = 200

\* C6, amended: in the fallback path the 10 suffixes are probed in the fixed
\* order whatever the outcomes; a probe that raises or returns non-200
\* excludes only its suffix and never yields the failure result; the links
\* collected are the suffix URLs whose HEAD returned 200, and the result keeps
\* main_website and the first 3 of them.
C6_FirstThreeProbesOk ==
    LET heads == OfKind(CallRequests, "HEAD")
    IN  InFallback =>
            /\ \A n \in DOMAIN heads : heads[n].url = SuffixUrl(n)
            /\ Len(heads) <= Len(career_patterns)
            /\ career_links = ProbesOk
            /\ (cpc = "probe") <=> (Len(heads) < Len(career_patterns))
            /\ cpc # "probe" =>
                 /\ Len(heads) = 10
                 /\ result.main_website = main_website
                 /\ result.career_urls = SubSeq(ProbesOk, 1, IF Len(ProbesOk) < 3 THEN Len(ProbesOk) ELSE 3)
                 /\ \A n \in DOMAIN heads :
                      SuffixUrl(n) \in Range(result.career_urls) <=>
                         /\ heads[n].status = 200
                         /\ Cardinality({m \in 1..(n - 1) : heads[m].status = 200}) < 3

\* C6's case: a probe raised, a later probe returned 200, and the call
\* returned that suffix URL.
C6_Witness ==
    LET heads == OfKind(CallRequests, "HEAD")
    IN  /\ cpc = "done"
        /\ InFallback
        /\ \E m, n \in DOMAIN heads :
              /\ m < n
              /\ heads[m].status = 0
              /\ heads[n].status = 200
              /\ heads[n].url \in Range(result.career_urls)

\* The positions of the relevant anchors of the page.
RelevantAt == {p \in DOMAIN all_links : Relevant(all_links[p])}

\* The absolute URL the anchor at position p resolves to.
ResolvedAt(p) == urljoin(main_website, all_links[p].href)

\* The relevant anchors whose href resolves to a URL.
ResolvableAt == {p \in RelevantAt : ~InvalidNetloc(all_links[p].href)}

\* The relevant anchors that are the first to resolve to their URL.
FirstSeenAt ==
    LET at == ResolvableAt
        url == [p \in at |-> ResolvedAt(p)]
    IN  {p \in at : \A q \in at : q < p => url[q] # url[p]}

\* The first min(3, n) resolved URLs of the relevant anchors, each URL at its
\* first occurrence, in document order.
ExpectedScanUrls ==
    LET first == FirstSeenAt
        n == Cardinality(first)
        At(j) == CHOOSE p \in first : Cardinality({q \in first : q <= p}) = j
    IN  [j \in 1..(IF n < 3 THEN n ELSE 3) |-> ResolvedAt(At(j))]

\* C7 as stated: when the scan finds at least one relevant anchor, career_urls
\* is the first min(3, n) resolved URLs of the relevant anchors, deduplicated
\* in first-seen order.
C7_ScanResultIsFirstThree ==
    (cpc = "done" /\ RelevantFound) => result.career_urls = ExpectedScanUrls

\* A relevant anchor whose href urljoin cannot resolve.
Unresolvable == ResolvableAt # RelevantAt

\* C7, amended: when the scan finds at least one relevant anchor and every
\* relevant anchor's href resolves, career_urls is the first min(3, n)
\* resolved URLs of the relevant anchors, deduplicated in first-seen order
\* before the truncation, without duplicates; when a relevant href does not
\* resolve, the call returns the failure result with an empty career_urls.
C7_ResolvableScanResultIsFirstThree ==
    (cpc = "done" /\ RelevantFound) =>
        /\ result.main_website = main_website
        /\ IF Unresolvable THEN result.career_urls = <<>>
           ELSE /\ result.career_urls = ExpectedScanUrls
                /\ result.career_urls # <<>>
                /\ \A p, q \in DOMAIN result.career_urls :
                      p # q => result.career_urls[p] # result.career_urls[q]

\* C7's case: four relevant anchors, two of the first three resolving to the
\* same URL, so that the fourth anchor's URL is the third of the result.
C7_Witness ==
    /\ cpc = "done"
    /\ Len(all_links) = 4
    /\ RelevantAt = 1..4
    /\ ~Unresolvable
    /\ FirstSeenAt \in {{1, 2, 4}, {1, 3, 4}}
    /\ Len(result.career_urls) = 3
    /\ result.career_urls[3] = ResolvedAt(4)

\* C8: for an existing input file of any length, the batch calls
\* find_career_page once per company in input order, writes the final output
\* and the complete summary report, and returns the result sequence, one
\* entry per company in input order.
C8_BatchCompletes ==
    (bpc = "returned" /\ input_file.exists) =>
        /\ returned = "results"
        /\ calls = Len(companies)
        /\ Len(results) = Len(companies)
        /\ \A j \in DOMAIN results : results[j].company = companies[j]
        /\ saved # <<>>
        /\ saved[Len(saved)].results = results
        /\ Len(summary) = 6

\* The companies whose pass of the loop is complete.
Processed == IF bpc \in {"calling", "appended"} THEN i - 1 ELSE i

\* The final output has been written.
FinalWritten == bpc \in {"summary", "returned"} /\ input_file.exists

\* C9: a checkpoint is written exactly when the number of processed companies
\* is a positive multiple of 50: named by that number, holding exactly the
\* results so far in order, written after that company's result is appended
\* and before the next company is started; the final output is written once,
\* after the last company.
C9_CheckpointEveryFifty ==
    LET checkpoints == Processed \div 50
    IN  /\ Len(saved) = checkpoints + (IF FinalWritten THEN 1 ELSE 0)
        /\ \A p \in 1..checkpoints :
              /\ saved[p].json = ProgressName(50 * p) \o <<".", "j", "s", "o", "n">>
              /\ saved[p].csv = ProgressName(50 * p) \o <<".", "c", "s", "v">>
              /\ Len(results) >= 50 * p
              /\ saved[p].results = SubSeq(results, 1, 50 * p)
        /\ FinalWritten =>
              /\ saved[Len(saved)].json = output_file \o <<".", "j", "s", "o", "n">>
              /\ saved[Len(saved)].results = results
              /\ Len(results) = Len(companies)
        /\ bpc = "calling" => Len(results) = i - 1
        /\ bpc = "appended" => Len(results) = i

\* C9's case: a batch of at least 100 companies has written two checkpoints
\* and the final output.
C9_Witness ==
    /\ bpc = "returned"
    /\ Len(saved) = 3
    /\ Len(saved[1].results) = 50
    /\ Len(saved[2].results) = 100
    /\ Len(saved[3].results) = Len(companies)

Rank(kind) == CASE kind = "SEARCH" -> 1 [] kind = "GET" -> 2 [] kind = "HEAD" -> 3

\* C10: a find_career_page call issues at most 1 resolver GET, only when no
\* homepage was supplied; then at most 1 homepage GET, only of a known
\* homepage; then at most 10 HEAD probes, only after the homepage GET and the
\* parse succeeded.  All requests of a call precede those of the next call,
\* and a call that has not returned can always take its next step.
C10_RequestBudget ==
    LET reqs == CallRequests
        searches == OfKind(reqs, "SEARCH")
        gets == OfKind(reqs, "GET")
        heads == OfKind(reqs, "HEAD")
    IN  /\ Len(searches) <= 1
        /\ Len(gets) <= 1
        /\ Len(heads) <= 10
        /\ \A p, q \in DOMAIN reqs : p < q => Rank(reqs[p].kind) <= Rank(reqs[q].kind)
        /\ searches # <<>> => Falsy(arg) /\ searches[1].url = SearchUrl(company)
        /\ gets # <<>> =>
              /\ ~Falsy(main_website)
              /\ gets[1].url = main_website
              /\ (searches = <<>>) <=> (main_website = arg)
              /\ searches # <<>> => searches[1].status = 200
        /\ heads # <<>> => gets # <<>> /\ gets[1].status = 200 /\ ~Unresolvable
        /\ \A p \in 1..(Len(requests) - 1) : requests[p].call <= requests[p + 1].call
        /\ \A p \in DOMAIN requests : requests[p].call <= calls
        /\ bpc \in {"calling", "appended"} => calls = i /\ company = companies[i]
        /\ cpc \in {"search", "fetch", "probe"} => ENABLED (Search \/ Fetch \/ Probe)
        /\ cpc = "done" => result.company = company

\* C10's case: a call without a supplied homepage has used its whole budget:
\* the search, the homepage GET and the 10 probes.
C10_Witness ==
    /\ cpc = "done"
    /\ Len(CallRequests) = 12
    /\ Len(OfKind(CallRequests, "HEAD")) = 10
    /\ calls > 1

=============================================================================
